---- MODULE Spec2Model ----
(***************************************************************************)
(* Model of src/app.py: a Streamlit script that reads an Excel sheet,      *)
(* lets the user pick columns, detects the economic (monetary) column by   *)
(* its name, sums it per group of the other selected columns and offers    *)
(* the result as Excel/Word/PDF.                                           *)
(*                                                                         *)
(* Streamlit runs the whole script top to bottom once per interaction.     *)
(* Each action below is one interaction followed by the complete script    *)
(* run it triggers.  st.session_state and the keyed widget values survive  *)
(* between runs; everything else is recomputed.                            *)
(***************************************************************************)
EXTENDS Integers, Sequences, FiniteSets

\* ------------------------------------------------------------ bounds
\* Largest number of data rows of an uploaded sheet.
MaxRows == 2

\* ------------------------------------------------------------ text
\* str(col).lower() and the substring test of line 125 work on the
\* characters of a column name: Chars(col) spells a name as a sequence of
\* one-character strings.  "EUROSIGN" stands for the character U+20AC.
UpperChars ==
    <<"A","B","C","D","E","F","G","H","I","J","K","L","M",
      "N","O","P","Q","R","S","T","U","V","W","X","Y","Z">>

LowerChars ==
    <<"a","b","c","d","e","f","g","h","i","j","k","l","m",
      "n","o","p","q","r","s","t","u","v","w","x","y","z">>

\* str.lower() on one character
LowerChar(c) ==
    IF \E i \in DOMAIN UpperChars : UpperChars[i] = c
    THEN LowerChars[CHOOSE i \in DOMAIN UpperChars : UpperChars[i] = c]
    ELSE c

\* str.lower()
Lower(s) == [i \in DOMAIN s |-> LowerChar(s[i])]

\* Python's  t in s  for strings
Contains(s, t) ==
    \E i \in 0..(Len(s) - Len(t)) : SubSeq(s, i + 1, i + Len(t)) = t

\* the literal list of line 125
EconomicTerms ==
    << <<"e","u","r","o">>,
       <<"EUROSIGN">>,
       <<"c","o","s","t","e">>,
       <<"i","m","p","o","r","t","e">>,
       <<"v","a","l","o","r">>,
       <<"i","n","g","r","e","s","o">>,
       <<"p","r","e","c","i","o">> >>

\* any(c in str(col).lower() for c in [...])   (line 125)
MatchesTerm(chars) ==
    \E k \in DOMAIN EconomicTerms : Contains(Lower(chars), EconomicTerms[k])

\* ------------------------------------------------------------ sheets
\* Column headers of the sheets the model uploads, and their spelling.
Region   == "Region"
Producto == "Producto"
Importe  == "Importe"
Valor    == "Valor"
PRECIO   == "PRECIO"

Spelling ==
    [Region   |-> <<"R","e","g","i","o","n">>,
     Producto |-> <<"P","r","o","d","u","c","t","o">>,
     Importe  |-> <<"I","m","p","o","r","t","e">>,
     Valor    |-> <<"V","a","l","o","r">>,
     PRECIO   |-> <<"P","R","E","C","I","O">>]

Chars(col) == Spelling[col]

\* Cell values: a number, a text, or an empty cell (NaN / None).
Num(n)  == [k |-> "num",  n |-> n, s |-> ""]
Text(s) == [k |-> "text", n |-> 0, s |-> s]
Null    == [k |-> "null", n |-> 0, s |-> ""]

IsNull(v) == v.k = "null"
IsNum(v)  == v.k = "num"
IsText(v) == v.k = "text"

\* The headers in use and the ones line 125 accepts, computed once.
AllColumns == DOMAIN Spelling

EconomicColumns == {c \in AllColumns : MatchesTerm(Chars(c))}

IsEconomic(col) == col \in EconomicColumns

\* An uploaded file: either unreadable by pd.read_excel(..., 'Hoja1')
\* (not a spreadsheet, or no sheet 'Hoja1'), or a sheet with a header row
\* and positionally aligned data rows.
InvalidFile == [valid |-> FALSE, cols |-> <<>>, rows |-> <<>>]

Sheet(cols, rows) == [valid |-> TRUE, cols |-> cols, rows |-> rows]

SeqsUpTo(S, n) == UNION {[1..k -> S] : k \in 0..n}

\* Sheets with headers Region, Importe, Valor and up to MaxRows data rows:
\* empty cells in the grouping column and in a monetary column, a text in
\* a monetary column.
RowsA ==
    {<<Text("N"), Num(1), Num(2)>>, <<Text("N"), Null, Num(2)>>,
     <<Null, Num(1), Num(2)>>, <<Text("S"), Num(1), Num(2)>>,
     <<Text("N"), Num(1), Text("x")>>}

SheetsA ==
    {Sheet(<<Region, Importe, Valor>>, rs) : rs \in SeqsUpTo(RowsA, MaxRows)}

\* The files uploaded while exercising the session: an unreadable file,
\* a sheet whose rows hold an empty grouping cell and a text, a sheet
\* whose Importe column is entirely empty, a sheet with other headers.
FileA ==
    Sheet(<<Region, Importe, Valor>>,
          << <<Text("N"), Num(1), Num(2)>>, <<Null, Num(1), Text("x")>> >>)

FileA2 ==
    Sheet(<<Region, Importe, Valor>>, << <<Text("S"), Null, Num(2)>> >>)

FileB ==
    Sheet(<<Region, Producto, PRECIO>>,
          << <<Text("N"), Text("A"), Num(5)>> >>)

Files == {InvalidFile, FileA, FileA2, FileB}

\* A DataFrame: column names and rows (tuples aligned with the columns).
Range(s) == {s[i] : i \in DOMAIN s}

\* df.dropna(axis=1, how='all'): a column survives iff some row holds a
\* non-null value in it (so a sheet without data rows loses every column).
KeptColumns(f) ==
    {j \in DOMAIN f.cols : \E i \in DOMAIN f.rows : ~IsNull(f.rows[i][j])}

RECURSIVE PickIndices(_, _, _)
\* the elements of s at the indices in J, in order, scanning from index j
PickIndices(s, J, j) ==
    IF j > Len(s) THEN <<>>
    ELSE (IF j \in J THEN <<s[j]>> ELSE <<>>) \o PickIndices(s, J, j + 1)

dropna(f) ==
    LET J == KeptColumns(f)
    IN  [cols |-> PickIndices(f.cols, J, 1),
         rows |-> [i \in DOMAIN f.rows |-> PickIndices(f.rows[i], J, 1)]]

\* lines 94-95: the DataFrame stored for a readable file (computed once
\* per file)
ReadTable == [f \in (Files \cup SheetsA) \ {InvalidFile} |-> dropna(f)]

read_excel(f) == ReadTable[f]

\* ------------------------------------------------------------ classifier
\* line 125: the selected columns that look monetary, in Selection order
\* faulty variant: the filter of line 125 left out
economic_column_options_all(sel) == sel

economic_column_options(sel) == SelectSeq(sel, IsEconomic)

\* faulty variant of line 139: every candidate removed, not only the
\* Monetary Column
group_by_columns_non_economic(sel, econ) ==
    SelectSeq(sel, LAMBDA c : ~IsEconomic(c))

\* line 139
group_by_columns_of(sel, econ) == SelectSeq(sel, LAMBDA c : c # econ)

\* ------------------------------------------------------------ aggregator
HasColumn(d, c) == \E j \in DOMAIN d.cols : d.cols[j] = c

ColIndex(d, c) == CHOOSE j \in DOMAIN d.cols : d.cols[j] = c

Column(d, c) == [i \in DOMAIN d.rows |-> d.rows[i][ColIndex(d, c)]]

RECURSIVE SumNums(_)
\* Series.sum(): numbers added, NaN skipped (an all-NaN series sums to 0)
SumNums(vs) ==
    IF vs = <<>> THEN 0
    ELSE (IF IsNum(Head(vs)) THEN Head(vs).n ELSE 0) + SumNums(Tail(vs))

\* a text among the values makes the sum (or the :,.2f formatting of its
\* result) raise
HasText(vs) == \E i \in DOMAIN vs : IsText(vs[i])

KeyOf(d, row, gcols) == [i \in DOMAIN gcols |-> row[ColIndex(d, gcols[i])]]

HasNullKey(k) == \E i \in DOMAIN k : IsNull(k[i])

\* groupby(...) with the default dropna=True: rows holding NaN in any
\* grouping column belong to no group
GroupedRows(d, gcols) ==
    {i \in DOMAIN d.rows : ~HasNullKey(KeyOf(d, d.rows[i], gcols))}

GroupKeys(d, gcols) ==
    {KeyOf(d, d.rows[i], gcols) : i \in GroupedRows(d, gcols)}

\* order of the group keys (groupby sorts them): numbers before texts,
\* texts by code point
TextOrder == <<"A", "N", "S", "x">>

TextRank(s) == CHOOSE i \in DOMAIN TextOrder : TextOrder[i] = s

ValLess(a, b) ==
    IF IsNum(a) /\ IsNum(b) THEN a.n < b.n
    ELSE IF IsText(a) /\ IsText(b) THEN TextRank(a.s) < TextRank(b.s)
    ELSE IsNum(a) /\ IsText(b)

KeyLess(k1, k2) ==
    \E i \in DOMAIN k1 :
        /\ ValLess(k1[i], k2[i])
        /\ \A j \in 1..(i - 1) : k1[j] = k2[j]

RECURSIVE SortKeys(_)
SortKeys(K) ==
    IF K = {} THEN <<>>
    ELSE LET m == CHOOSE k \in K : \A o \in K \ {k} : KeyLess(k, o)
         IN  <<m>> \o SortKeys(K \ {m})

RECURSIVE ValuesAt(_, _, _, _)
\* the values of column c in the rows of I, in row order
ValuesAt(d, c, I, i) ==
    IF i > Len(d.rows) THEN <<>>
    ELSE (IF i \in I THEN <<d.rows[i][ColIndex(d, c)]>> ELSE <<>>)
         \o ValuesAt(d, c, I, i + 1)

GroupValues(d, gcols, econ, key) ==
    ValuesAt(d, econ, {i \in GroupedRows(d, gcols) :
                          KeyOf(d, d.rows[i], gcols) = key}, 1)

\* line 149: df.groupby(group_by_columns)[economic_column].sum().reset_index()
\* one row per group key: the key and the sum of the group's values (a
\* group of texts yields a text, written Text("x"), on which line 162 raises)
groupby_sum(d, gcols, econ) ==
    LET keys == SortKeys(GroupKeys(d, gcols))
    IN  [i \in DOMAIN keys |->
            LET vs == GroupValues(d, gcols, econ, keys[i])
            IN  [key |-> keys[i],
                 value |-> IF HasText(vs) THEN Text("x") ELSE Num(SumNums(vs))]]

\* the values the group-by sum adds up
GroupedValues(d, gcols, econ) == ValuesAt(d, econ, GroupedRows(d, gcols), 1)

RECURSIVE SumValues(_)
\* line 161: analysis_df[economic_column].sum()
SumValues(adf) ==
    IF adf = <<>> THEN 0
    ELSE (IF IsNum(Head(adf).value) THEN Head(adf).value.n ELSE 0)
         + SumValues(Tail(adf))

\* ------------------------------------------------------------ state
VARIABLES
    \* widget values kept by Streamlit between runs
    uploader,                  \* <<>> or <<file>>     (key "file_uploader")
    column_selector,           \* multiselect value    (key "column_selector")
    economic_column_selector,  \* <<>> or <<column>>   (key "economic_column_selector")
    \* st.session_state (lines 76-80)
    file_uploaded,
    analyze_button_clicked,
    df,                        \* <<>> (None) or <<DataFrame>>
    selected_columns,
    \* what the last script run did
    interaction,               \* the interaction that triggered it
    shown,                     \* the elements it displayed
    column_names,              \* options of the multiselect (<<>> if not rendered)
    economic_options,          \* economic_column_options (<<>> if not computed)
    computed,                  \* a sum or group-by sum was attempted
    economic_column,           \* <<>> or <<column>>
    group_by_columns,
    analysis_df,               \* rows of the Aggregated Table shown
    total_sum                  \* <<>> or <<number>>

widgets == <<uploader, column_selector, economic_column_selector>>
session == <<file_uploaded, analyze_button_clicked, df, selected_columns>>
lastrun == <<interaction, shown, column_names, economic_options, computed,
             economic_column, group_by_columns, analysis_df, total_sum>>
vars == <<widgets, session, lastrun>>

\* ------------------------------------------------------------ script
\* lines 90-91
FileUploadedAfter(up, fu) == IF up # <<>> THEN TRUE ELSE fu

\* faulty variant: line 92 left out
FlagKeptOnUpload(up, abc) == abc

\* lines 90, 92: every run that finds a file in the uploader resets the flag
FlagAfterUpload(up, abc) == IF up # <<>> THEN FALSE ELSE abc

\* faulty variant: line 99 left out
DfKeptOnReadFailure(up, d) ==
    IF up # <<>> /\ up[1].valid THEN <<read_excel(up[1])>> ELSE d

\* lines 93-99
DfAfterUpload(up, d) ==
    IF up = <<>> THEN d
    ELSE IF up[1].valid THEN <<read_excel(up[1])>>
    ELSE <<>>

ReadFails(up) == up # <<>> /\ ~up[1].valid

\* line 102
Step1Shown(fu, d) == fu /\ d # <<>>

\* lines 106-110: the value the multiselect returns.  With unchanged
\* options it is the widget's value; when the options changed, Streamlit
\* either starts the widget afresh or keeps the chosen values that are
\* still options (version dependent).
MultiselectValues(cs, oldOptions, options) ==
    IF oldOptions = options THEN {cs}
    ELSE {<<>>, SelectSeq(cs, LAMBDA c : c \in Range(options))}

\* lines 133-137: the value the selectbox returns; index 0 by default
SelectboxValues(es, oldOptions, options) ==
    IF es = <<>> \/ es[1] \notin Range(options) THEN {options[1]}
    ELSE IF oldOptions = options THEN {es[1]}
    ELSE {options[1], es[1]}

\* lines 113-115
FlagAfterButton(step1, click, abc) == IF step1 /\ click THEN TRUE ELSE abc

SelectionAfterButton(step1, click, ms, sel) ==
    IF step1 /\ click THEN ms ELSE sel

\* Steps of the try block (lines 148-189) in execution order; the rank of
\* the step that raises, NoFailure if none does.
RankGroupby == 1
RankChart   == 2
RankSummary == 3
RankExcel   == 4
RankWord    == 5
RankPdf     == 6
NoFailure   == 7

\* failures the environment can cause: px.bar / plotly_chart, to_excel,
\* to_word, to_pdf
RendererFailures == {RankChart, RankExcel, RankWord, RankPdf, NoFailure}

\* where a text in the summed values makes the run raise: in the group-by
\* sum itself (a number added to a text) or when the total is formatted
\* with :,.2f (texts concatenated)
TextFailures == {RankGroupby, RankSummary}

Min(a, b) == IF a < b THEN a ELSE b

\* the data the analysis needs is there: a DataFrame holding every column
DataPresent(d, cols) ==
    d # <<>> /\ \A i \in DOMAIN cols : HasColumn(d[1], cols[i])

\* the rank of the first step of the try block that raises
FailRank(d, gcols, econ, rendererFail, textFail) ==
    IF ~DataPresent(d, gcols \o <<econ>>) THEN RankGroupby
    ELSE IF HasText(GroupedValues(d[1], gcols, econ))
         THEN Min(textFail, rendererFail)
    ELSE rendererFail

\* lines 147-191: what the grouped branch displays when the step of rank r
\* raises.  Elements already sent to the page stay on it.
GroupedShown(r) ==
    {"results_header"}
    \cup (IF r > RankGroupby THEN {"table"} ELSE {})
    \cup (IF r > RankChart THEN {"chart"} ELSE {})
    \cup (IF r > RankSummary THEN {"summary"} ELSE {})
    \cup (IF r > RankExcel THEN {"dl_excel"} ELSE {})
    \cup (IF r > RankWord THEN {"dl_word"} ELSE {})
    \cup (IF r > RankPdf THEN {"dl_pdf"} ELSE {})
    \cup (IF r < NoFailure THEN {"error_processing"} ELSE {})

\* lines 141-145: the scalar branch; the sum is outside any try, so a
\* failure ends the run with Streamlit's own exception box
ScalarFails(d, econ) ==
    ~DataPresent(d, <<econ>>) \/ HasText(Column(d[1], econ))

\* variant: the download buttons offered in the scalar branch too
ScalarShownWithExports(d, econ) ==
    {"scalar_header"} \cup
    (IF ScalarFails(d, econ) THEN {"exception"}
     ELSE {"metric", "dl_excel", "dl_word", "dl_pdf"})

ScalarShown(d, econ) ==
    {"scalar_header"} \cup
    (IF ScalarFails(d, econ) THEN {"exception"} ELSE {"metric"})

\* line 144
ScalarTotal(d, econ) ==
    IF ScalarFails(d, econ) THEN <<>> ELSE <<SumNums(Column(d[1], econ))>>

\* lines 130-137: the first candidate, replaced by the selectbox's value
\* when there are several candidates
EconomicColumn(options, sb) == IF Len(options) > 1 THEN sb ELSE options[1]

\* lines 118-191: the analysis section, run when the flag is set.  The
\* result is everything the section displays and computes.
NoAnalysis ==
    [shown |-> {}, options |-> <<>>, computed |-> FALSE, econ |-> <<>>,
     group_by |-> <<>>, adf |-> <<>>, total |-> <<>>]

Analysis(sel, d, sb, rendererFail, textFail) ==
    IF sel = <<>> THEN [NoAnalysis EXCEPT !.shown = {"warning"}]
    ELSE
    LET options == economic_column_options(sel) IN
    IF options = <<>> THEN [NoAnalysis EXCEPT !.shown = {"error_no_economic"}]
    ELSE
    LET econ     == EconomicColumn(options, sb)
        selector == IF Len(options) > 1 THEN {"selector"} ELSE {}
        gcols    == group_by_columns_of(sel, econ)
    IN
    IF gcols = <<>>
    THEN [shown    |-> selector \cup ScalarShown(d, econ),
          options  |-> options,
          computed |-> TRUE,
          econ     |-> <<econ>>,
          group_by |-> gcols,
          adf      |-> <<>>,
          total    |-> ScalarTotal(d, econ)]
    ELSE
    LET r == FailRank(d, gcols, econ, rendererFail, textFail) IN
         [shown    |-> selector \cup GroupedShown(r),
          options  |-> options,
          computed |-> TRUE,
          econ     |-> <<econ>>,
          group_by |-> gcols,
          adf      |-> IF r > RankGroupby
                       THEN groupby_sum(d[1], gcols, econ) ELSE <<>>,
          total    |-> IF r > RankSummary
                       THEN <<SumValues(groupby_sum(d[1], gcols, econ))>>
                       ELSE <<>>]

\* the grouped branch (lines 147-191) will run
GroupedBranch(abc, sel, sb) ==
    /\ abc
    /\ economic_column_options(sel) # <<>>
    /\ group_by_columns_of(
           sel, EconomicColumn(economic_column_options(sel), sb)) # <<>>

\* ... and will sum a text
GroupedTexts(abc, sel, d, sb) ==
    /\ GroupedBranch(abc, sel, sb)
    /\ LET econ  == EconomicColumn(economic_column_options(sel), sb)
           gcols == group_by_columns_of(sel, econ)
       IN  /\ DataPresent(d, gcols \o <<econ>>)
           /\ HasText(GroupedValues(d[1], gcols, econ))

\* One complete run of the script (lines 76-191) on the widget values
\* up, cs, es and the session state fu, abc, d, sel; click says whether
\* the run was triggered by "Analizar Datos".
Run(kind, pick, up, cs, es, fu, abc, d, sel, click) ==
    LET fu1   == FileUploadedAfter(up, fu)
        abc1  == FlagAfterUpload(up, abc)
        d1    == DfAfterUpload(up, d)
        step1 == Step1Shown(fu1, d1)
        names == IF step1 THEN d1[1].cols ELSE <<>>
    IN
    \E ms \in (IF step1 THEN MultiselectValues(cs, column_names, names)
               ELSE {<<>>}) :
    LET abc2 == FlagAfterButton(step1, click, abc1)
        sel2 == SelectionAfterButton(step1, click, ms, sel)
        opts == IF abc2 THEN economic_column_options(sel2) ELSE <<>>
    IN
    \E sb \in (IF Len(opts) > 1
               THEN SelectboxValues(es, economic_options, opts)
               ELSE {<<>>}) :
    \E rendererFail \in (IF GroupedBranch(abc2, sel2, sb)
                         THEN RendererFailures ELSE {NoFailure}) :
    \E textFail \in (IF GroupedTexts(abc2, sel2, d1, sb)
                     THEN TextFailures ELSE {NoFailure}) :
    LET a == IF abc2 THEN Analysis(sel2, d1, sb, rendererFail, textFail)
             ELSE NoAnalysis
    IN
    /\ uploader' = up
    /\ column_selector' = ms
    /\ economic_column_selector' =
           (IF "selector" \in a.shown THEN a.econ ELSE <<>>)
    /\ file_uploaded' = fu1
    /\ analyze_button_clicked' = abc2
    /\ df' = d1
    /\ selected_columns' = sel2
    /\ interaction' = [kind |-> kind, pick |-> pick]
    /\ shown' = a.shown
                \cup (IF ReadFails(up) THEN {"error_read"} ELSE {})
                \cup (IF step1 THEN {"step1"} ELSE {})
    /\ column_names' = names
    /\ economic_options' = a.options
    /\ computed' = a.computed
    /\ economic_column' = a.econ
    /\ group_by_columns' = a.group_by
    /\ analysis_df' = a.adf
    /\ total_sum' = a.total

\* ------------------------------------------------------------ interactions
\* First run of a new session: lines 76-80 initialise the session state,
\* no widget holds a value, nothing but the title and the uploader shows.
Init ==
    /\ uploader = <<>>
    /\ column_selector = <<>>
    /\ economic_column_selector = <<>>
    /\ file_uploaded = FALSE
    /\ analyze_button_clicked = FALSE
    /\ df = <<>>
    /\ selected_columns = <<>>
    /\ interaction = [kind |-> "open", pick |-> <<>>]
    /\ shown = {}
    /\ column_names = <<>>
    /\ economic_options = <<>>
    /\ computed = FALSE
    /\ economic_column = <<>>
    /\ group_by_columns = <<>>
    /\ analysis_df = <<>>
    /\ total_sum = <<>>

RunOnSession(kind, pick, up, cs, es, click) ==
    Run(kind, pick, up, cs, es, file_uploaded, analyze_button_clicked, df,
        selected_columns, click)

\* the user puts a file into the uploader (line 88)
Upload ==
    \E f \in Files :
        /\ uploader # <<f>>
        /\ RunOnSession("upload", <<>>, <<f>>, column_selector,
                        economic_column_selector, FALSE)

\* the user removes the file from the uploader with its x
RemoveFile ==
    /\ uploader # <<>>
    /\ RunOnSession("remove", <<>>, <<>>, column_selector,
                    economic_column_selector, FALSE)

\* the user adds a column to the multiselect or removes one (lines 106-110)
ChangeColumns ==
    /\ "step1" \in shown
    /\ \E c \in Range(column_names) :
        LET cs == IF c \in Range(column_selector)
                  THEN SelectSeq(column_selector, LAMBDA x : x # c)
                  ELSE Append(column_selector, c)
        IN  RunOnSession("multiselect", <<>>, uploader, cs,
                         economic_column_selector, FALSE)

\* the user presses "Analizar Datos" (line 113)
ClickAnalyze ==
    /\ "step1" \in shown
    /\ RunOnSession("analyze", <<>>, uploader, column_selector,
                    economic_column_selector, TRUE)

\* the user picks another column in the selectbox (lines 133-137)
PickEconomic ==
    /\ "selector" \in shown
    /\ \E c \in Range(economic_options) :
        /\ <<c>> # economic_column_selector
        /\ RunOnSession("selectbox", <<c>>, uploader, column_selector,
                        <<c>>, FALSE)

\* the user presses one of the download buttons (lines 170-189): a
\* download button reruns the script like any other button
ClickDownload ==
    /\ \E b \in {"dl_excel", "dl_word", "dl_pdf"} : b \in shown
    /\ RunOnSession("download", <<>>, uploader, column_selector,
                    economic_column_selector, FALSE)

\* the user presses "Hacer otro analisis" (lines 83-85): the session state
\* and the keyed widget values are cleared and the script runs again from
\* line 76.  The browser's uploader may still hold the file.
ClickReset ==
    \E up \in {<<>>, uploader} :
        Run("reset", <<>>, up, <<>>, <<>>, FALSE, FALSE, <<>>, <<>>, FALSE)

Next ==
    \/ Upload
    \/ RemoveFile
    \/ ChangeColumns
    \/ ClickAnalyze
    \/ PickEconomic
    \/ ClickDownload
    \/ ClickReset

Spec == Init /\ [][Next]_vars

\* The aggregation on every sheet of SheetsA: a session in which one of
\* them has just been uploaded, the user then choosing columns and
\* analysing.
InitAgg ==
    \E f \in SheetsA :
        /\ uploader = <<f>>
        /\ column_selector = <<>>
        /\ economic_column_selector = <<>>
        /\ file_uploaded = TRUE
        /\ analyze_button_clicked = FALSE
        /\ df = <<read_excel(f)>>
        /\ selected_columns = <<>>
        /\ interaction = [kind |-> "upload", pick |-> <<>>]
        /\ shown = {"step1"}
        /\ column_names = read_excel(f).cols
        /\ economic_options = <<>>
        /\ computed = FALSE
        /\ economic_column = <<>>
        /\ group_by_columns = <<>>
        /\ analysis_df = <<>>
        /\ total_sum = <<>>

NextAgg ==
    \/ ChangeColumns
    \/ ClickAnalyze
    \/ PickEconomic
    \/ ClickDownload

SpecAgg == InitAgg /\ [][NextAgg]_vars

\* ------------------------------------------------------------ properties
\* What the properties below call things.
Exports == {"dl_excel", "dl_word", "dl_pdf"}

Results == {"table", "chart", "summary"} \cup Exports

\* what the analysis section (lines 118-191) displayed
AnalysisShown == shown \ {"step1", "error_read"}

\* The recognized terms as the specification lists them, and the
\* candidate rule stated on the spelling of a name.
ClaimTerms ==
    { <<"e","u","r","o">>, <<"EUROSIGN">>, <<"c","o","s","t","e">>,
      <<"i","m","p","o","r","t","e">>, <<"v","a","l","o","r">>,
      <<"i","n","g","r","e","s","o">>, <<"p","r","e","c","i","o">> }

ClaimCandidate(col) ==
    \E t \in ClaimTerms : Contains(Lower(Chars(col)), t)

ClaimCandidates(sel) == SelectSeq(sel, ClaimCandidate)

RECURSIVE ClaimSumRows(_, _, _)
\* sum of the numbers in column j of the first n rows (nulls add nothing)
ClaimSumRows(rows, j, n) ==
    IF n = 0 THEN 0
    ELSE ClaimSumRows(rows, j, n - 1)
         + (IF rows[n][j].k = "num" THEN rows[n][j].n ELSE 0)

\* sum of the Monetary Column over all rows of the stored Table
ClaimColumnSum(col) ==
    ClaimSumRows(df[1].rows, ColIndex(df[1], col), Len(df[1].rows))

ClaimNumericColumn(col) ==
    \A i \in DOMAIN df[1].rows : df[1].rows[i][ColIndex(df[1], col)].k # "text"

ClaimKeys ==
    {KeyOf(df[1], df[1].rows[i], group_by_columns) : i \in DOMAIN df[1].rows}

\* C1 (as claimed): whenever a grouped analysis over a numeric Monetary
\* Column reports its grand total, the total equals the sum of the
\* Monetary Column over all rows of the Table, nulls contributing zero,
\* also when rows hold a null in a grouping column.
C1_SumInvariance ==
    (total_sum # <<>> /\ group_by_columns # <<>>
        /\ "error_processing" \notin shown
        /\ ClaimNumericColumn(economic_column[1]))
    => total_sum[1] = ClaimColumnSum(economic_column[1])

\* C2 (as claimed): the Aggregated Table shown has exactly one row for
\* every distinct tuple of grouping-column values occurring in the Table,
\* tuples containing a null included, and no other row.
C2_GroupingCompleteness ==
    ("table" \in shown /\ "error_processing" \notin shown)
    => /\ {analysis_df[i].key : i \in DOMAIN analysis_df} = ClaimKeys
       /\ Len(analysis_df) = Cardinality(ClaimKeys)

\* C3 (as claimed): with several monetary candidates and the file still in
\* the uploader, the run of the "Analizar Datos" click uses the first
\* candidate and shows the selector, and the run triggered by picking
\* another candidate in the selector displays the analysis with the picked
\* column as Monetary Column and the other selected columns as Grouping
\* Columns.
C3_Overridable ==
    /\ (interaction.kind = "analyze" /\ uploader # <<>>
            /\ Len(ClaimCandidates(selected_columns)) > 1)
       => /\ "selector" \in shown
          /\ economic_column = <<ClaimCandidates(selected_columns)[1]>>
    /\ (interaction.kind = "selectbox" /\ uploader # <<>>)
       => /\ economic_column = interaction.pick
          /\ group_by_columns =
                 SelectSeq(selected_columns,
                           LAMBDA c : <<c>> # interaction.pick)
          /\ shown \cap (Results \cup {"metric"}) # {}

\* C4 (as claimed): a grouped analysis run in which a step fails reports
\* the failure and displays none of the table, the chart, the summary and
\* the download buttons; a failing sum in the scalar-total case is
\* reported on the page as well.
C4_NothingPartial ==
    /\ ("error_processing" \in shown) => (shown \cap Results = {})
    /\ (computed /\ group_by_columns = <<>> /\ "metric" \notin shown)
       => shown \cap {"error_processing", "exception"} # {}

\* the analysed Selection is the Monetary Column alone, a column of
\* numbers and nulls
ScalarCase ==
    /\ computed
    /\ group_by_columns = <<>>
    /\ ClaimNumericColumn(economic_column[1])

\* C5 (as claimed): the scalar-total case is not an error, displays the
\* total of the column, shows no table and no chart, and offers the three
\* exports.
C5_ScalarWithExports ==
    ScalarCase
    => /\ shown \cap {"exception", "error_processing"} = {}
       /\ "metric" \in shown
       /\ total_sum = <<ClaimColumnSum(economic_column[1])>>
       /\ shown \cap {"table", "chart"} = {}
       /\ Exports \subseteq shown

\* C5 (amended): the scalar-total case is not an error, displays the total
\* of the column (nulls adding nothing), shows no table and no chart, and
\* offers no export.
C5_ScalarTotalOnly ==
    ScalarCase
    => /\ shown \cap {"exception", "error_processing"} = {}
       /\ "metric" \in shown
       /\ total_sum = <<ClaimColumnSum(economic_column[1])>>
       /\ shown \cap {"table", "chart"} = {}
       /\ shown \cap Exports = {}

\* a scalar total over a column holding a null and a number
C5_Witness ==
    /\ ScalarCase
    /\ "metric" \in shown
    /\ total_sum # <<0>>
    /\ \E i \in DOMAIN df[1].rows :
           df[1].rows[i][ColIndex(df[1], economic_column[1])].k = "null"

\* C6 (as claimed): the stored Table changes only on an upload or a reset,
\* the stored Selection only on an "Analizar Datos" click or a reset, the
\* analysis-has-run flag only on such a click, an upload or a reset;
\* changing the multiselect, choosing in the selector and pressing a
\* download button change none of the three.
C6_Frame ==
    [][ /\ (df' # df) => interaction'.kind \in {"upload", "reset"}
        /\ (selected_columns' # selected_columns)
               => interaction'.kind \in {"analyze", "reset"}
        /\ (analyze_button_clicked' # analyze_button_clicked)
               => interaction'.kind \in {"analyze", "upload", "reset"}
      ]_vars

C8_NoComputationWithoutCandidate ==
    /\ computed
       => /\ selected_columns # <<>>
          /\ \E i \in DOMAIN selected_columns :
                 ClaimCandidate(selected_columns[i])
    /\ (analyze_button_clicked /\ selected_columns = <<>>)
       => /\ AnalysisShown = {"warning"}
          /\ ~computed /\ analysis_df = <<>> /\ total_sum = <<>>
    /\ (analyze_button_clicked /\ selected_columns # <<>>
            /\ ClaimCandidates(selected_columns) = <<>>)
       => /\ AnalysisShown = {"error_no_economic"}
          /\ ~computed /\ analysis_df = <<>> /\ total_sum = <<>>

\* an analysis of a non-empty Selection without a candidate
C8_Witness ==
    /\ analyze_button_clicked
    /\ selected_columns # <<>>
    /\ ClaimCandidates(selected_columns) = <<>>
    /\ "error_no_economic" \in shown

\* C9: in an analysis of a Selection with a candidate, the Monetary Column
\* is one of the candidates (the selected columns whose lowercased name
\* contains a term, in Selection order), it is the candidate when there is
\* exactly one, and the Grouping Columns are the Selection without the
\* Monetary Column, in Selection order.
C9_ClassifierOutput ==
    (analyze_button_clicked /\ ClaimCandidates(selected_columns) # <<>>)
    => /\ economic_options = ClaimCandidates(selected_columns)
       /\ Len(economic_column) = 1
       /\ economic_column[1] \in Range(ClaimCandidates(selected_columns))
       /\ Len(ClaimCandidates(selected_columns)) = 1
              => economic_column[1] = ClaimCandidates(selected_columns)[1]
       /\ group_by_columns =
              SelectSeq(selected_columns, LAMBDA c : c # economic_column[1])

\* an analysis whose Monetary Column is not the first candidate, another
\* candidate and a non-candidate being Grouping Columns
C9_Witness ==
    /\ analyze_button_clicked
    /\ Len(ClaimCandidates(selected_columns)) > 1
    /\ economic_column # <<ClaimCandidates(selected_columns)[1]>>
    /\ \E i \in DOMAIN group_by_columns : ClaimCandidate(group_by_columns[i])
    /\ \E i \in DOMAIN group_by_columns : ~ClaimCandidate(group_by_columns[i])

\* C10: whenever the analysis section runs on a non-empty stored
\* Selection, a Table is stored and every selected column is one of its
\* columns.
C10_SelectionWithinTable ==
    (analyze_button_clicked /\ selected_columns # <<>>)
    => /\ df # <<>>
       /\ Range(selected_columns) \subseteq Range(df[1].cols)

\* the analysis section running, the file gone from the uploader, on a
\* Table that lost a column of its sheet
C10_Witness ==
    /\ analyze_button_clicked
    /\ selected_columns # <<>>
    /\ uploader = <<>>
    /\ df # <<>>
    /\ Len(df[1].cols) = 2
====
